---------------------------- MODULE Spec2Model ----------------------------
(***************************************************************************)
(* Model of src/agent.js, the crypto double-bottom detection agent.        *)
(*                                                                         *)
(* Numbers.  A JavaScript number that the agent computes is modelled as an *)
(* exact fraction <<n, d>> with d >= 0; d = 0 is an infinity (<<-1, 0>> is *)
(* -Infinity, the value of Math.max() of no arguments).  Prices of the     *)
(* feed are integers (in some currency unit) and timestamps of the feed    *)
(* are integers counting hours (the code's milliseconds divided by         *)
(* 3600000), so that every comparison of the code is decided exactly.      *)
(*                                                                         *)
(* Indices.  priceData is a TLA+ sequence (1-based); every index the code  *)
(* computes is kept 0-based as in the code, and At(s, i) reads s[i].       *)
(***************************************************************************)
EXTENDS Integers, Sequences, FiniteSets, TLC

VARIABLES
    history,      \* ml.history: sequence of [pattern |-> [depth], outcome]
    successRate,  \* ml.successRate (a fraction)
    predicted,    \* what the last call of ml.predict from outside returned
    cycles,       \* the invocations of detectDoubleBottom, in start order
    priceData,    \* pipeline run: the price history being analysed
    crypto,       \* pipeline run: the asset being analysed
    bottoms,      \* pipeline run: the result of findBottoms(priceData)
    analysis,     \* pipeline run: the result of analyzeCrypto
    alert,        \* pipeline run: what sendAlert emitted
    pc            \* pipeline run: position

mlVars == <<history, successRate, predicted>>
runVars == <<priceData, crypto, bottoms, analysis, alert, pc>>
vars == <<history, successRate, predicted, cycles,
          priceData, crypto, bottoms, analysis, alert, pc>>

---------------------------------------------------------------------------
(* Bounds of the model *)

MaxLen == 34        \* longest price history of a pipeline run
MaxDevs == 2        \* points of a price history that leave the base price
MaxHistory == 3     \* learn calls, for the predictor on its own
MaxLearns == 2      \* learn calls while the agent runs
MaxCycles == 2      \* invocations of detectDoubleBottom (startup + ticks)

---------------------------------------------------------------------------
(* Exact arithmetic of the numbers the code computes *)

Abs(x) == IF x < 0 THEN -x ELSE x
RECURSIVE GCD(_, _)
GCD(a, b) == IF b = 0 THEN a ELSE GCD(b, a % b)
Norm(r) == LET g == GCD(Abs(r[1]), r[2]) IN IF g = 0 THEN r ELSE <<r[1] \div g, r[2] \div g>>
Num(x) == <<x, 1>>
NegInfinity == <<-1, 0>>
RDiv(x, y) == Norm(<<x, y>>)
RLt(a, b) == a[1] * b[2] < b[1] * a[2]
RLe(a, b) == a[1] * b[2] <= b[1] * a[2]
RGe(a, b) == RLe(b, a)
REq(a, b) == a[1] * b[2] = b[1] * a[2]
RMul(a, b) == Norm(<<a[1] * b[1], a[2] * b[2]>>)
RAbsDiff(a, b) == Norm(<<Abs(a[1] * b[2] - b[1] * a[2]), a[2] * b[2]>>)

(* Array.prototype.slice(start, end) and Array.prototype.slice(start) *)
SliceIdx(s, k) == IF k < 0 THEN (IF Len(s) + k < 0 THEN 0 ELSE Len(s) + k)
                  ELSE (IF k > Len(s) THEN Len(s) ELSE k)
Slice(s, start, end) == SubSeq(s, SliceIdx(s, start) + 1, SliceIdx(s, end))
SliceFrom(s, start) == Slice(s, start, Len(s))
At(s, i) == s[i + 1]

(* p[0] and p[1] of a price point [timestamp, price] *)
P0(p) == p[1]
P1(p) == p[2]

---------------------------------------------------------------------------
(* CONFIG *)

tolerance == RDiv(20, 100)
timeBetweenBottomsMin == 21
timeBetweenBottomsMax == 42
minVolume == 1000000
minMarketCap == 40000000
HoursPerDay == 24

---------------------------------------------------------------------------
(* findBottoms *)

(* IsBottom with strict comparisons: a plateau point is no bottom *)
IsBottomStrict(pd, i) ==
    LET current == P1(At(pd, i))
    IN  /\ \A k \in DOMAIN Slice(pd, i - 10, i) :
               P1(Slice(pd, i - 10, i)[k]) > current
        /\ \A k \in DOMAIN Slice(pd, i + 1, i + 11) :
               P1(Slice(pd, i + 1, i + 11)[k]) > current

(* IsBottom that looks at the following window only *)
IsBottomFollowingOnly(pd, i) ==
    LET current == P1(At(pd, i))
    IN  \A k \in DOMAIN Slice(pd, i + 1, i + 11) :
            P1(Slice(pd, i + 1, i + 11)[k]) >= current

IsBottom(pd, i) ==
    LET current == P1(At(pd, i))
    IN  /\ \A k \in DOMAIN Slice(pd, i - 10, i) :
               P1(Slice(pd, i - 10, i)[k]) >= current
        /\ \A k \in DOMAIN Slice(pd, i + 1, i + 11) :
               P1(Slice(pd, i + 1, i + 11)[k]) >= current

RECURSIVE FindBottomsLoop(_, _, _)
FindBottomsLoop(pd, i, acc) ==
    IF i < Len(pd) - 10
    THEN FindBottomsLoop(pd, i + 1,
            IF IsBottom(pd, i)
            THEN Append(acc, [timestamp |-> P0(At(pd, i)),
                              price |-> P1(At(pd, i)),
                              index |-> i])
            ELSE acc)
    ELSE acc

findBottoms(pd) == FindBottomsLoop(pd, 10, <<>>)

---------------------------------------------------------------------------
(* calculateNeckline *)

RECURSIVE MathMax(_)
MathMax(xs) ==
    IF xs = <<>> THEN NegInfinity
    ELSE LET rest == MathMax(Tail(xs))
         IN  IF RLt(rest, Num(Head(xs))) THEN Num(Head(xs)) ELSE rest

(* calculateNeckline over the points strictly between the two bottoms *)
calculateNecklineAfterFirst(pd, firstBottom, secondBottom) ==
    LET between == Slice(pd, firstBottom.index + 1, secondBottom.index)
    IN  MathMax([k \in DOMAIN between |-> P1(between[k])])

calculateNeckline(pd, firstBottom, secondBottom) ==
    LET between == Slice(pd, firstBottom.index, secondBottom.index)
    IN  MathMax([k \in DOMAIN between |-> P1(between[k])])

---------------------------------------------------------------------------
(* analyzeCrypto, from the price history it fetched *)

NoPattern == [hasDoubleBottom |-> FALSE]

(* analyzeBottoms pairing the first two bottoms, bottoms.slice(0, 2) *)
analyzeBottomsFirstTwo(pd, bs) ==
    IF Len(bs) >= 2
    THEN LET pair == Slice(bs, 0, 2)
             first == pair[1]
             second == pair[2]
             priceDiff == RDiv(Abs(first.price - second.price), first.price)
             timeDiff == RDiv(second.timestamp - first.timestamp, HoursPerDay)
         IN  IF /\ RLe(priceDiff, tolerance)
                /\ RGe(timeDiff, Num(timeBetweenBottomsMin))
                /\ RLe(timeDiff, Num(timeBetweenBottomsMax))
             THEN [hasDoubleBottom |-> TRUE,
                   pattern |-> [firstBottom |-> first,
                                secondBottom |-> second,
                                neckline |-> MathMax([k \in DOMAIN Slice(pd, first.index, second.index)
                                                         |-> P1(Slice(pd, first.index, second.index)[k])]),
                                depth |-> priceDiff,
                                timespan |-> timeDiff]]
             ELSE NoPattern
    ELSE NoPattern

analyzeBottoms(pd, bs) ==
    IF Len(bs) >= 2
    THEN LET pair == SliceFrom(bs, -2)
             first == pair[1]
             second == pair[2]
             priceDiff == RDiv(Abs(first.price - second.price), first.price)
             timeDiff == RDiv(second.timestamp - first.timestamp, HoursPerDay)
         IN  IF /\ RLe(priceDiff, tolerance)
                /\ RGe(timeDiff, Num(timeBetweenBottomsMin))
                /\ RLe(timeDiff, Num(timeBetweenBottomsMax))
             THEN [hasDoubleBottom |-> TRUE,
                   pattern |-> [firstBottom |-> first,
                                secondBottom |-> second,
                                neckline |-> calculateNeckline(pd, first, second),
                                depth |-> priceDiff,
                                timespan |-> timeDiff]]
             ELSE NoPattern
    ELSE NoPattern

analyzePrices(pd) == analyzeBottoms(pd, findBottoms(pd))

---------------------------------------------------------------------------
(* sendAlert: the alert type chosen *)

(* alertTypeOf testing the ORANGE condition before the YELLOW one *)
alertTypeOfOrangeFirst(currentPrice, pattern) ==
    IF RLt(Num(currentPrice), RMul(pattern.neckline, RDiv(95, 100)))
    THEN "ALERTA LARANJA"
    ELSE IF RLt(Num(currentPrice), RMul(Num(pattern.secondBottom.price), RDiv(105, 100)))
    THEN "ALERTA AMARELO"
    ELSE IF RGe(Num(currentPrice), RMul(pattern.neckline, RDiv(95, 100)))
    THEN "ALERTA VERMELHO"
    ELSE "undefined"

(* alertTypeOf whose RED condition uses the factor 1.05 *)
alertTypeOfRedAbove(currentPrice, pattern) ==
    IF RLt(Num(currentPrice), RMul(Num(pattern.secondBottom.price), RDiv(105, 100)))
    THEN "ALERTA AMARELO"
    ELSE IF RLt(Num(currentPrice), RMul(pattern.neckline, RDiv(95, 100)))
    THEN "ALERTA LARANJA"
    ELSE IF RGe(Num(currentPrice), RMul(pattern.neckline, RDiv(105, 100)))
    THEN "ALERTA VERMELHO"
    ELSE "undefined"

alertTypeOf(currentPrice, pattern) ==
    IF RLt(Num(currentPrice), RMul(Num(pattern.secondBottom.price), RDiv(105, 100)))
    THEN "ALERTA AMARELO"
    ELSE IF RLt(Num(currentPrice), RMul(pattern.neckline, RDiv(95, 100)))
    THEN "ALERTA LARANJA"
    ELSE IF RGe(Num(currentPrice), RMul(pattern.neckline, RDiv(95, 100)))
    THEN "ALERTA VERMELHO"
    ELSE "undefined"

sendAlert(c, an, confidence) ==
    [symbol |-> c.symbol,
     alertType |-> alertTypeOf(c.current_price, an.pattern),
     confidence |-> confidence]

---------------------------------------------------------------------------
(* MLPredictor *)

IsSuccess(h) == h.outcome = "success"

updateSuccessRate(hist) ==
    RMul(RDiv(Len(SelectSeq(hist, IsSuccess)), Len(hist)), Num(100))

(* learn with unshift in place of push *)
mlLearnUnshift(hist, pattern, outcome) ==
    <<[pattern |-> pattern, outcome |-> outcome]>> \o hist

mlLearn(hist, pattern, outcome) ==
    Append(hist, [pattern |-> pattern, outcome |-> outcome])

(* predict with <= 0.1 in place of < 0.1 *)
mlPredictInclusive(hist, pattern) ==
    LET Similar(h) == RLe(RAbsDiff(h.pattern.depth, pattern.depth), RDiv(1, 10))
        similarPatterns == SelectSeq(hist, Similar)
    IN  IF Len(similarPatterns) = 0 THEN RDiv(5, 10)
        ELSE RDiv(Len(SelectSeq(similarPatterns, IsSuccess)), Len(similarPatterns))

mlPredict(hist, pattern) ==
    LET Similar(h) == RLt(RAbsDiff(h.pattern.depth, pattern.depth), RDiv(1, 10))
        similarPatterns == SelectSeq(hist, Similar)
    IN  IF Len(similarPatterns) = 0 THEN RDiv(5, 10)
        ELSE RDiv(Len(SelectSeq(similarPatterns, IsSuccess)), Len(similarPatterns))

---------------------------------------------------------------------------
(* The price histories of a pipeline run: n points, `step` hours apart,   *)
(* at the base price except at up to MaxDevs points that deviate from it. *)
(* The deviating points lie at the ends of the history, around the first  *)
(* and the last index findBottoms examines, and one window further on.    *)

Lens == {0, 20, 21, 22, MaxLen}
Steps == {4, 42, 84, 168, 504}
BasePrices == {10}
DevPrices == {7, 8, 12}
CurrentPrices == 7..12

DevPositions(n) == {0, 9, 10, 11, 12, 21, 22, 23, n - 11, n - 10, n - 1} \cap (0..(n - 1))

(* the subsets of S of at most k elements *)
RECURSIVE SubsetsUpTo(_, _)
SubsetsUpTo(S, k) ==
    IF k = 0 \/ S = {} THEN {{}}
    ELSE LET x == CHOOSE y \in S : TRUE
             rest == SubsetsUpTo(S \ {x}, k)
             with == {T \cup {x} : T \in SubsetsUpTo(S \ {x}, k - 1)}
         IN  rest \cup with

Series(n, step, base, dev) ==
    [i \in 1..n |->
        <<(i - 1) * step, IF (i - 1) \in DOMAIN dev THEN dev[i - 1] ELSE base>>]

NoCrypto == [id |-> "none", symbol |-> "none", current_price |-> 0,
             total_volume |-> 0, market_cap |-> 0]

InitML ==
    /\ history = <<>>
    /\ successRate = Num(0)
    /\ predicted = <<>>

InitRun ==
    /\ \E n \in Lens, step \in Steps, base \in BasePrices :
          \E D \in SubsetsUpTo(DevPositions(n), MaxDevs) :
             \E dev \in [D -> DevPrices] :
                priceData = Series(n, step, base, dev)
    /\ crypto = NoCrypto
    /\ bottoms = <<>>
    /\ analysis = NoPattern
    /\ alert = <<>>
    /\ pc = "fetched"

---------------------------------------------------------------------------
(* A pipeline run: analyzeCrypto on a fetched price history, then the     *)
(* prediction and the alert of detectDoubleBottom's loop body.            *)

RunFindBottoms ==
    /\ pc = "fetched"
    /\ bottoms' = findBottoms(priceData)
    /\ pc' = "scanned"
    /\ UNCHANGED <<priceData, crypto, analysis, alert, mlVars, cycles>>

RunAnalyze ==
    /\ pc = "scanned"
    /\ analysis' = analyzeBottoms(priceData, bottoms)
    /\ pc' = "analysed"
    /\ UNCHANGED <<priceData, crypto, bottoms, alert, mlVars, cycles>>

RunAlert ==
    /\ pc = "analysed"
    /\ analysis.hasDoubleBottom
    /\ \E cp \in CurrentPrices :
          /\ crypto' = [id |-> "run", symbol |-> "run", current_price |-> cp,
                        total_volume |-> minVolume, market_cap |-> minMarketCap]
          /\ alert' = <<sendAlert(crypto', analysis, mlPredict(history, analysis.pattern))>>
    /\ pc' = "alerted"
    /\ UNCHANGED <<priceData, bottoms, analysis, mlVars, cycles>>

InitPure == InitML /\ InitRun /\ cycles = <<>>
NextPure == RunFindBottoms \/ RunAnalyze \/ RunAlert
SpecPure == InitPure /\ [][NextPure]_vars

---------------------------------------------------------------------------
(* The agent: the invocations of detectDoubleBottom, each suspended at a  *)
(* data retrieval or ended, the timer that starts them, and the calls of  *)
(* ml.learn and ml.predict from outside (module.exports hands out ml).    *)

Asset(id, price, volume, cap) ==
    [id |-> id, symbol |-> id, current_price |-> price,
     total_volume |-> volume, market_cap |-> cap]

(* what /coins/markets may answer *)
MarketData ==
    {<<Asset("low", 9, minVolume - 1, minMarketCap)>>,
     <<Asset("aaa", 9, minVolume, minMarketCap),
       Asset("small", 9, minVolume, minMarketCap - 1),
       Asset("bbb", 12, minVolume + 1, minMarketCap + 1)>>}

(* what /coins/<id>/market_chart answers, when it answers: for "aaa" two *)
(* bottoms of prices 8 and 7, 38.5 days apart (depth 1/8); for any other  *)
(* asset a plateau of bottoms 21 days apart (depth 0)                     *)
MarketChart(id) ==
    IF id = "aaa" THEN Series(34, 84, 10, (12 :> 8) @@ (23 :> 7))
    ELSE Series(34, 504, 10, <<>>)

Outcomes == {"success", "failure"}
(* depths learned and asked for, for the predictor on its own *)
Depths == {RDiv(0, 1), RDiv(5, 100), RDiv(1, 10), RDiv(3, 10)}
QueryDepths == {RDiv(0, 1), RDiv(6, 100), RDiv(1, 8), RDiv(3, 10)}
(* depths learned and asked for while the agent runs *)
AgentDepths == {RDiv(1, 10)}
AgentQueryDepths == {RDiv(1, 8)}

IsEligible(c) == c.total_volume >= minVolume /\ c.market_cap >= minMarketCap

(* detectDoubleBottom up to its first suspension, in getEligibleCryptos *)
NewCycle ==
    [pc |-> "markets", cryptos |-> <<>>, i |-> 0, alerts |-> <<>>,
     requests |-> <<"markets">>, error |-> FALSE, promise |-> "pending"]

(* the loop of detectDoubleBottom reaching index i: the next asset's      *)
(* price history is requested, or the function returns                    *)
LoopAt(c, i) ==
    IF i < Len(c.cryptos)
    THEN [c EXCEPT !.pc = "chart", !.i = i,
                   !.requests = Append(@, At(c.cryptos, i).id)]
    ELSE [c EXCEPT !.pc = "done", !.i = i, !.promise = "fulfilled"]

(* a catch inside the loop: the error is logged and the loop goes on *)
CaughtAndContinue(c) ==
    IF c.pc = "chart" THEN LoopAt([c EXCEPT !.error = TRUE], c.i + 1)
    ELSE [c EXCEPT !.pc = "done", !.error = TRUE, !.promise = "fulfilled"]

(* the catch block of detectDoubleBottom *)
Caught(c) == [c EXCEPT !.pc = "done", !.error = TRUE, !.promise = "fulfilled"]

(* the body of the loop for the asset at index c.i, once its price        *)
(* history pd has arrived                                                 *)
LoopBody(c, pd, hist) ==
    LET asset == At(c.cryptos, c.i)
        an == analyzePrices(pd)
    IN  IF an.hasDoubleBottom
        THEN [c EXCEPT !.alerts =
                 Append(@, sendAlert(asset, an, mlPredict(hist, an.pattern)))]
        ELSE c

(* a timer that skips the tick while a cycle is in progress *)
TickWhenIdle ==
    /\ Len(cycles) < MaxCycles
    /\ \A k \in DOMAIN cycles : cycles[k].pc = "done"
    /\ cycles' = Append(cycles, NewCycle)
    /\ UNCHANGED <<mlVars, runVars>>

(* setInterval fires: detectDoubleBottom is called *)
Tick ==
    /\ Len(cycles) < MaxCycles
    /\ cycles' = Append(cycles, NewCycle)
    /\ UNCHANGED <<mlVars, runVars>>

MarketsResponse(k) ==
    /\ cycles[k].pc = "markets"
    /\ \E data \in MarketData :
          cycles' = [cycles EXCEPT
                        ![k] = LoopAt([@ EXCEPT !.cryptos = SelectSeq(data, IsEligible)], 0)]
    /\ UNCHANGED <<mlVars, runVars>>

MarketsError(k) ==
    /\ cycles[k].pc = "markets"
    /\ cycles' = [cycles EXCEPT ![k] = Caught(@)]
    /\ UNCHANGED <<mlVars, runVars>>

ChartResponse(k) ==
    /\ cycles[k].pc = "chart"
    /\ LET pd == MarketChart(At(cycles[k].cryptos, cycles[k].i).id)
       IN  cycles' = [cycles EXCEPT
                         ![k] = LoopAt(LoopBody(@, pd, history), cycles[k].i + 1)]
    /\ UNCHANGED <<mlVars, runVars>>

ChartError(k) ==
    /\ cycles[k].pc = "chart"
    /\ cycles' = [cycles EXCEPT ![k] = Caught(@)]
    /\ UNCHANGED <<mlVars, runVars>>

(* ml.learn(pattern, outcome) called from outside *)
LearnCall(limit, D) ==
    /\ Len(history) < limit
    /\ \E d \in D, o \in Outcomes :
          /\ history' = mlLearn(history, [depth |-> d], o)
          /\ successRate' = updateSuccessRate(history')
    /\ UNCHANGED <<predicted, cycles, runVars>>

(* ml.predict(pattern) called from outside *)
PredictCall(Q) ==
    /\ \E d \in Q :
          predicted' = <<[depth |-> d, result |-> mlPredict(history, [depth |-> d])]>>
    /\ UNCHANGED <<history, successRate, cycles, runVars>>

Learn == LearnCall(MaxLearns, AgentDepths)
Predict == PredictCall(AgentQueryDepths)

InitIdleRun ==
    /\ priceData = <<>>
    /\ crypto = NoCrypto
    /\ bottoms = <<>>
    /\ analysis = NoPattern
    /\ alert = <<>>
    /\ pc = "idle"

Init == InitML /\ InitIdleRun /\ cycles = <<NewCycle>>

Next ==
    \/ Tick
    \/ \E k \in DOMAIN cycles : MarketsResponse(k)
    \/ \E k \in DOMAIN cycles : MarketsError(k)
    \/ \E k \in DOMAIN cycles : ChartResponse(k)
    \/ \E k \in DOMAIN cycles : ChartError(k)
    \/ Learn
    \/ Predict

Spec == Init /\ [][Next]_vars

(* The predictor on its own *)
LearnAny == LearnCall(MaxHistory, Depths)
PredictAny == PredictCall(QueryDepths)
InitPredictor == InitML /\ InitIdleRun /\ cycles = <<>>
NextPredictor == LearnAny \/ PredictAny
SpecPredictor == InitPredictor /\ [][NextPredictor]_vars

---------------------------------------------------------------------------
(* Vocabulary of the properties, stated on the price history itself *)

PriceAt(i) == priceData[i + 1][2]
TimeAt(i) == priceData[i + 1][1]

(* index i has 10 points on either side and its price is <= each of them *)
LocalMinimum(i) ==
    /\ 10 <= i
    /\ i <= Len(priceData) - 11
    /\ \A j \in (i - 10)..(i - 1) : PriceAt(i) <= PriceAt(j)
    /\ \A j \in (i + 1)..(i + 10) : PriceAt(i) <= PriceAt(j)

LocalMinima == {i \in 0..(Len(priceData) - 1) : LocalMinimum(i)}
SetMax(S) == CHOOSE x \in S : \A y \in S : y <= x
BottomAt(i) == [timestamp |-> TimeAt(i), price |-> PriceAt(i), index |-> i]

(* the two acceptance criteria, for a first bottom at f and a second at s *)
DepthOk(f, s) == 100 * Abs(PriceAt(f) - PriceAt(s)) <= 20 * PriceAt(f)
SpanOk(f, s) ==
    /\ TimeAt(s) - TimeAt(f) >= 21 * 24
    /\ TimeAt(s) - TimeAt(f) <= 42 * 24

Scanned == pc \in {"scanned", "analysed", "alerted"}
Analysed == pc \in {"analysed", "alerted"}
Alerted == pc = "alerted"

---------------------------------------------------------------------------
(* C2: findBottoms reports index i iff 10 <= i <= n - 11 and the price at *)
(* i is <= each of the 10 prices before and the 10 prices after it; the   *)
(* output is in strictly ascending index order, each bottom carries the   *)
(* timestamp and price of its index, and fewer than 21 points give none.  *)
C2_FindBottomsExact ==
    Scanned =>
        /\ \A i \in -1..Len(priceData) :
              (\E k \in DOMAIN bottoms : bottoms[k].index = i) <=> LocalMinimum(i)
        /\ \A k \in DOMAIN bottoms : bottoms[k] = BottomAt(bottoms[k].index)
        /\ \A k \in DOMAIN bottoms :
              k + 1 \in DOMAIN bottoms => bottoms[k].index < bottoms[k + 1].index
        /\ Len(priceData) < 21 => bottoms = <<>>

(* a plateau: two neighbouring points of equal price are both reported,   *)
(* while index 9, lowest among the indices 0..19 but with only 9 points   *)
(* before it, is not                                                      *)
C2_Witness ==
    /\ Scanned
    /\ \E k \in DOMAIN bottoms :
          /\ k + 1 \in DOMAIN bottoms
          /\ bottoms[k + 1].index = bottoms[k].index + 1
          /\ bottoms[k + 1].price = bottoms[k].price
    /\ PriceAt(9) < PriceAt(10)
    /\ \A j \in 0..19 : PriceAt(9) <= PriceAt(j)
    /\ \A k \in DOMAIN bottoms : bottoms[k].index # 9

---------------------------------------------------------------------------
(* C1: analyzeCrypto returns a pattern iff there are at least 2 bottoms   *)
(* and the LAST two of them pass both criteria (depth <= 0.20, 21 <= days *)
(* <= 42); the pattern then holds exactly those two bottoms and the depth *)
(* and timespan tested; otherwise it returns hasDoubleBottom false.       *)
C1_LastTwoBottomsDecide ==
    Analysed =>
        IF Cardinality(LocalMinima) >= 2
        THEN LET s == SetMax(LocalMinima)
                 f == SetMax(LocalMinima \ {s})
             IN  IF DepthOk(f, s) /\ SpanOk(f, s)
                 THEN /\ analysis.hasDoubleBottom
                      /\ analysis.pattern.firstBottom = BottomAt(f)
                      /\ analysis.pattern.secondBottom = BottomAt(s)
                      /\ REq(analysis.pattern.depth,
                             <<Abs(PriceAt(f) - PriceAt(s)), PriceAt(f)>>)
                      /\ REq(analysis.pattern.timespan, <<TimeAt(s) - TimeAt(f), 24>>)
                 ELSE analysis = [hasDoubleBottom |-> FALSE]
        ELSE analysis = [hasDoubleBottom |-> FALSE]

(* no pattern although an earlier pair of bottoms passes both criteria *)
C1_Witness ==
    /\ Analysed
    /\ ~analysis.hasDoubleBottom
    /\ \E f, s \in LocalMinima : f < s /\ DepthOk(f, s) /\ SpanOk(f, s)

---------------------------------------------------------------------------
(* C5: the neckline is the maximum price over the indices first.index ..  *)
(* second.index - 1: it is >= every price of that span (so every price    *)
(* strictly between the two bottoms) and some index of the span has it.   *)
C5_NecklineIsSpanMaximum ==
    (Analysed /\ analysis.hasDoubleBottom) =>
        LET pat == analysis.pattern
            span == pat.firstBottom.index..(pat.secondBottom.index - 1)
        IN  /\ \A j \in span : RLe(Num(PriceAt(j)), pat.neckline)
            /\ \E j \in span : pat.neckline = Num(PriceAt(j))

(* a pattern whose neckline is a peak strictly between the two bottoms *)
C5_Witness ==
    /\ Analysed
    /\ analysis.hasDoubleBottom
    /\ LET pat == analysis.pattern
       IN  /\ RLt(Num(pat.firstBottom.price), pat.neckline)
           /\ RLt(Num(pat.secondBottom.price), pat.neckline)
           /\ \E j \in (pat.firstBottom.index + 1)..(pat.secondBottom.index - 1) :
                 pat.neckline = Num(PriceAt(j))

---------------------------------------------------------------------------
(* C10: in every pattern firstBottom.index < secondBottom.index, the      *)
(* neckline is a finite price of the history (not the value of an empty   *)
(* span) and neckline >= max(firstBottom.price, secondBottom.price).      *)
C10_NecklineAboveBothBottoms ==
    (Analysed /\ analysis.hasDoubleBottom) =>
        LET pat == analysis.pattern
        IN  /\ pat.firstBottom.index < pat.secondBottom.index
            /\ pat.neckline[2] # 0
            /\ pat.neckline # NegInfinity
            /\ RGe(pat.neckline, Num(pat.firstBottom.price))
            /\ RGe(pat.neckline, Num(pat.secondBottom.price))

(* a pattern of two neighbouring bottoms whose first is deeper: the span  *)
(* is the first bottom alone                                              *)
C10_Witness ==
    /\ Analysed
    /\ analysis.hasDoubleBottom
    /\ analysis.pattern.secondBottom.index = analysis.pattern.firstBottom.index + 1
    /\ analysis.pattern.neckline = Num(analysis.pattern.firstBottom.price)

---------------------------------------------------------------------------
(* The three conditions of sendAlert, on the alert emitted *)

YellowCond == 100 * crypto.current_price < 105 * analysis.pattern.secondBottom.price
OrangeCond ==
    100 * crypto.current_price * analysis.pattern.neckline[2]
        < 95 * analysis.pattern.neckline[1]
RedCond ==
    100 * crypto.current_price * analysis.pattern.neckline[2]
        >= 95 * analysis.pattern.neckline[1]

(* C3: the tier is chosen in the order YELLOW, ORANGE, RED, the first     *)
(* true condition winning: YELLOW whenever its condition holds, ORANGE    *)
(* only when YELLOW's is false, RED only when both earlier ones are.      *)
C3_TierPriority ==
    Alerted =>
        /\ alert[1].alertType = "ALERTA AMARELO" <=> YellowCond
        /\ alert[1].alertType = "ALERTA LARANJA" <=> (~YellowCond /\ OrangeCond)
        /\ alert[1].alertType = "ALERTA VERMELHO"
              <=> (~YellowCond /\ ~OrangeCond /\ RedCond)

(* YELLOW emitted although ORANGE's condition holds as well *)
C3_Witness ==
    /\ Alerted
    /\ alert[1].alertType = "ALERTA AMARELO"
    /\ OrangeCond

---------------------------------------------------------------------------
(* C9: for every pattern and current price one of the three conditions    *)
(* holds, so an alert always has one of the three types, never none.      *)
C9_TierAlwaysSet ==
    Alerted =>
        /\ YellowCond \/ OrangeCond \/ RedCond
        /\ alert[1].alertType \in {"ALERTA AMARELO", "ALERTA LARANJA", "ALERTA VERMELHO"}

(* secondBottom.price * 1.05 >= neckline * 0.95 and the price is not      *)
(* below the former: neither of the first two conditions holds            *)
C9_Witness ==
    /\ Alerted
    /\ 105 * analysis.pattern.secondBottom.price * analysis.pattern.neckline[2]
          >= 95 * analysis.pattern.neckline[1]
    /\ ~YellowCond
    /\ ~OrangeCond
    /\ alert[1].alertType = "ALERTA VERMELHO"

---------------------------------------------------------------------------
(* Vocabulary of the predictor's properties, stated on the store itself *)

(* record k of the store lies within 0.10 of depth q *)
Within(k, q) ==
    10 * Abs(history[k].pattern.depth[1] * q[2] - q[1] * history[k].pattern.depth[2])
        < history[k].pattern.depth[2] * q[2]
Matches(q) == {k \in DOMAIN history : Within(k, q)}
Successes(q) == {k \in Matches(q) : history[k].outcome = "success"}

(* C4: predict returns exactly 0.5 when no stored record lies within 0.10 *)
(* of the pattern's depth (an empty store included), and otherwise the    *)
(* share of successes among the records that do; the result is in [0, 1]. *)
C4_PredictByDepthOnly ==
    [][history' = history =>
          \A n \in DOMAIN predicted' :
             LET q == predicted'[n].depth
                 r == predicted'[n].result
             IN  /\ r[2] > 0 /\ 0 <= r[1] /\ r[1] <= r[2]
                 /\ Matches(q) = {} => r = <<1, 2>>
                 /\ Matches(q) # {} =>
                       r[1] * Cardinality(Matches(q)) = Cardinality(Successes(q)) * r[2]]_vars

(* both matching records failed, and a successful record exactly 0.10    *)
(* away from the depth asked for is in the store and does not count       *)
C4_Witness ==
    /\ predicted # <<>>
    /\ predicted[1].result = <<0, 1>>
    /\ Cardinality(Matches(predicted[1].depth)) = 2
    /\ \E k \in DOMAIN history :
          /\ ~Within(k, predicted[1].depth)
          /\ history[k].outcome = "success"
          /\ RAbsDiff(history[k].pattern.depth, predicted[1].depth) = <<1, 10>>

---------------------------------------------------------------------------
(* C7: the store is append-only and changed by learn alone: a step either *)
(* leaves it as it is or is a learn call, which adds one record at the    *)
(* end and keeps every earlier record; predict and the steps of a         *)
(* detection cycle leave it unchanged.                                    *)
C7_StoreAppendOnly ==
    [][\/ history' = history
       \/ /\ Len(history') = Len(history) + 1
          /\ SubSeq(history', 1, Len(history)) = history
          /\ cycles' = cycles
          /\ predicted' = predicted]_vars

(* two records learned, in call order, while a cycle has predicted and    *)
(* sent an alert and predict has been called from outside                 *)
C7_Witness ==
    /\ Len(history) = 2
    /\ history[1].outcome = "failure"
    /\ history[2].outcome = "success"
    /\ predicted # <<>>
    /\ \E k \in DOMAIN cycles : cycles[k].alerts # <<>>

---------------------------------------------------------------------------
(* C6: an error while listing the assets or analysing one ends the cycle  *)
(* there: nothing more is requested, analysed or alerted in that cycle,   *)
(* nothing is requested twice, the error does not escape the function,    *)
(* and a cycle started later begins at the head of the list whatever      *)
(* became of the earlier ones.                                            *)
C6_ErrorEndsCycle ==
    [][/\ \A k \in DOMAIN cycles :
             /\ cycles[k].pc = "done" => cycles'[k] = cycles[k]
             /\ (cycles'[k].error /\ ~cycles[k].error) =>
                   cycles'[k] = [cycles[k] EXCEPT !.pc = "done", !.error = TRUE,
                                                  !.promise = "fulfilled"]
       /\ \A k \in DOMAIN cycles' :
             /\ cycles'[k].promise # "rejected"
             /\ cycles'[k].error => cycles'[k].pc = "done"
             /\ \A m, n \in DOMAIN cycles'[k].requests :
                   cycles'[k].requests[m] = cycles'[k].requests[n] => m = n
             /\ k \notin DOMAIN cycles =>
                   cycles'[k] = [pc |-> "markets", cryptos |-> <<>>, i |-> 0,
                                 alerts |-> <<>>, requests |-> <<"markets">>,
                                 error |-> FALSE, promise |-> "pending"]]_vars

(* the first cycle failed at its first asset, so the second asset was     *)
(* never requested and nothing was alerted; the next cycle went through   *)
(* both assets                                                            *)
C6_Witness ==
    /\ Len(cycles) >= 2
    /\ cycles[1].error
    /\ Len(cycles[1].cryptos) = 2
    /\ cycles[1].requests = <<"markets", "aaa">>
    /\ cycles[1].alerts = <<>>
    /\ cycles[2].pc = "done"
    /\ ~cycles[2].error
    /\ Len(cycles[2].alerts) = 2

---------------------------------------------------------------------------
(* C8: the timer can start a cycle whatever the earlier cycles are doing  *)
(* (there is no cycle-in-progress guard): short of the model's bound on   *)
(* the number of cycles, a tick is possible in every state.               *)
C8_NoCycleInProgressGuard ==
    Len(cycles) < MaxCycles => ENABLED Tick

(* two cycles in flight at once, both suspended at a data retrieval, each *)
(* having alerted for the same asset with the confidence the store gave   *)
(* it at the time                                                         *)
C8_Witness ==
    /\ Len(cycles) >= 2
    /\ cycles[1].pc = "chart"
    /\ cycles[2].pc = "chart"
    /\ Len(cycles[1].alerts) = 1
    /\ Len(cycles[2].alerts) = 1
    /\ cycles[1].alerts[1].symbol = cycles[2].alerts[1].symbol
    /\ cycles[1].alerts[1].confidence # cycles[2].alerts[1].confidence

=============================================================================
